---- MODULE Spec2Model ----
(***************************************************************************)
(* Model of the weather-forecasting service (routes.py, config.py,         *)
(* models.py): the /api/predict handler with its day-bucketing aggregation *)
(* of the OpenWeatherMap 3-hour feed, the /api/weather/current handler and *)
(* the /api/predictions/history query.                                     *)
(*                                                                         *)
(* Times are epoch seconds.  datetime.fromtimestamp converts an epoch      *)
(* value to the server's local wall-clock time; the server's UTC offset is *)
(* the variable tz.                                                        *)
(***************************************************************************)
EXTENDS Integers, Sequences, FiniteSets, TLC

VARIABLES
    handler,           \* the route handling the current request
    pc,                \* position of the running handler
    request,           \* the inbound request: JSON body or query arguments
    api_key,           \* Config.OPENWEATHER_API_KEY
    tz,                \* UTC offset of the server's local time zone, seconds
    upstream,          \* what requests.get returned or raised
    upstreamCalls,     \* outbound GETs issued while handling this request
    forecasts,         \* forecast_data.get("list", []): the upstream samples
    daily_forecasts,   \* dict date_key -> entry, as its items in insertion order
    sorted_forecasts,  \* sorted(daily_forecasts.items(), ...)[:5]
    predictions,       \* the list of summaries built by the formatting loop
    response,          \* the HTTP response returned by the handler
    responses,         \* responses returned for this request
    stored             \* rows of the predictions table

vars == <<handler, pc, request, api_key, tz, upstream, upstreamCalls, forecasts,
          daily_forecasts, sorted_forecasts, predictions, response, responses,
          stored>>

----------------------------------------------------------------------------
(* Bounds of the model                                                     *)

\* list length of the "deep" sample lists (several samples per date, around
\* noon, in any order and with repetitions)
MaxDeepLen == 4
\* number of calendar dates of the "wide" sample lists (one sample per date,
\* in any order, over more dates than the forecast horizon)
MaxWideDays == 6

\* sorted(...)[:5]
MaxSummaries == 5

Min(a, b) == IF a < b THEN a ELSE b

\* the sequences over S of length at most n
SeqsUpTo(S, n) == UNION {[1..k -> S] : k \in 0..n}

\* the sequences over S in which no element occurs twice
RECURSIVE InjectiveSeqs(_)
InjectiveSeqs(S) ==
    {<<>>} \cup UNION {{<<x>> \o s : s \in InjectiveSeqs(S \ {x})} : x \in S}

----------------------------------------------------------------------------
(* Time conversion: datetime.fromtimestamp(dt), strftime, dt.hour          *)

\* the naive local datetime of an epoch value, as local seconds
FromTimestamp(dt, offset) == dt + offset

\* dt.strftime('%Y-%m-%d'): the local calendar date, as its day number
DateKey(timestamp) == timestamp \div 86400

\* dt.hour
Hour(timestamp) == (timestamp \div 3600) % 24

\* strftime('%A, %b %d %H:%M'): the local time to the minute
FullDatetime(timestamp) == timestamp \div 60

\* the epoch value whose local time under offset is day/hour/minute
Stamp(day, hour, minute, offset) == ((day * 24 + hour) * 60 + minute) * 60 - offset

----------------------------------------------------------------------------
(* The aggregation of predict: group by day, sort, truncate, format        *)

\* no exception
NoExc == [type |-> "none", text |-> ""]

\* position of date_key among the items of the dict d, 0 when absent
RECURSIVE IndexOfKey(_, _, _)
IndexOfKey(d, key, i) ==
    IF i > Len(d) THEN 0
    ELSE IF d[i].key = key THEN i
    ELSE IndexOfKey(d, key, i + 1)

\* daily_forecasts[date_key] = entry: a new key is appended, an existing
\* key keeps its place
DictSet(d, key, entry) ==
    LET i == IndexOfKey(d, key, 1) IN
    IF i = 0 THEN Append(d, [key |-> key, value |-> entry])
    ELSE [d EXCEPT ![i] = [key |-> key, value |-> entry]]

\* mutant: the noon preference is lost, the first sample of a date stays
KeepsSampleFirstOnly(d, date_key, timestamp) ==
    IndexOfKey(d, date_key, 1) = 0

\* mutant: every sample replaces the entry of its date, the last one stays
KeepsSampleAlways(d, date_key, timestamp) == TRUE

\* `if date_key not in daily_forecasts or dt.hour == 12`
KeepsSample(d, date_key, timestamp) ==
    IndexOfKey(d, date_key, 1) = 0 \/ Hour(timestamp) = 12

\* one pass of the grouping loop's body
GroupStep(d, forecast, offset) ==
    LET timestamp == FromTimestamp(forecast.dt, offset)
        date_key == DateKey(timestamp)
    IN  IF KeepsSample(d, date_key, timestamp)
        THEN DictSet(d, date_key,
                     [dt |-> forecast.dt, timestamp |-> timestamp,
                      forecast |-> forecast])
        ELSE d

\* the grouping loop over the first n samples
RECURSIVE GroupByDay(_, _, _)
GroupByDay(fs, n, offset) ==
    IF n = 0 THEN <<>>
    ELSE GroupStep(GroupByDay(fs, n - 1, offset), fs[n], offset)

\* insertion of an item into a list sorted by timestamp, after its equals
\* (sorted() is stable)
RECURSIVE InsertSorted(_, _)
InsertSorted(s, item) ==
    IF s = <<>> THEN <<item>>
    ELSE IF item.value.timestamp < s[Len(s)].value.timestamp
         THEN Append(InsertSorted(SubSeq(s, 1, Len(s) - 1), item), s[Len(s)])
         ELSE Append(s, item)

RECURSIVE SortedByTimestamp(_, _)
SortedByTimestamp(d, n) ==
    IF n = 0 THEN <<>>
    ELSE InsertSorted(SortedByTimestamp(d, n - 1), d[n])

\* mutant: the items are truncated in insertion order, without sorting
SortedForecastsUnsorted(d) ==
    SubSeq(d, 1, Min(MaxSummaries, Len(d)))

\* sorted(daily_forecasts.items(), key=lambda x: x[1]['timestamp'])[:5]
SortedForecasts(d) ==
    LET s == SortedByTimestamp(d, Len(d))
    IN  SubSeq(s, 1, Min(MaxSummaries, Len(s)))

\* the exception datetime.fromtimestamp(forecast["dt"]) raises for a sample
SampleError(forecast) ==
    CASE forecast.shape = "no_dt" -> [type |-> "KeyError", text |-> "'dt'"]
      [] forecast.shape = "dt_out_of_range" ->
            [type |-> "ValueError", text |-> "year 33658 is out of range"]
      [] OTHER -> NoExc

\* the first exception of the grouping loop over the samples from i on
RECURSIVE GroupError(_, _)
GroupError(fs, i) ==
    IF i > Len(fs) THEN NoExc
    ELSE IF SampleError(fs[i]) # NoExc THEN SampleError(fs[i])
    ELSE GroupError(fs, i + 1)

\* the first exception of the formatting loop: forecast['main'] of a
\* retained sample that has no 'main' block, or .get('3h', 0) on a 'rain' or
\* 'snow' entry that is null
RECURSIVE FormatError(_, _)
FormatError(s, k) ==
    IF k > Len(s) THEN NoExc
    ELSE IF s[k].value.forecast.shape = "no_main"
         THEN [type |-> "KeyError", text |-> "'main'"]
    ELSE IF "null" \in {s[k].value.forecast.rain.kind, s[k].value.forecast.snow.kind}
         THEN [type |-> "AttributeError",
               text |-> "'NoneType' object has no attribute 'get'"]
         ELSE FormatError(s, k + 1)

\* forecast.get(name, {}).get('3h', 0), in tenths of a millimetre: the '3h'
\* value of the block, 0 when the block or its '3h' field is missing
Accumulation(block) == IF block.kind = "value" THEN block.v ELSE 0

\* mutant: the snow accumulation is left out
PrecipitationRainOnly(forecast) == Accumulation(forecast.rain)

\* forecast.get('rain', {}).get('3h', 0) + forecast.get('snow', {}).get('3h', 0)
Precipitation(forecast) ==
    Accumulation(forecast.rain) + Accumulation(forecast.snow)

\* one summary of the formatting loop
FormatPrediction(idx, data) ==
    [day_offset |-> idx,
     date |-> DateKey(data.timestamp),
     full_datetime |-> FullDatetime(data.timestamp),
     precipitation |-> Precipitation(data.forecast)]

\* the formatting loop: enumerate(sorted_forecasts)
Predictions(s) == [k \in 1..Len(s) |-> FormatPrediction(k - 1, s[k].value)]

----------------------------------------------------------------------------
(* HTTP responses and the exception handlers                               *)

NoResponse ==
    [status |-> 0, success |-> FALSE, error |-> "", detail |-> "",
     predictions |-> <<>>]

\* jsonify({'error': ...}), status
ErrorResponse(status, error, detail) ==
    [status |-> status, success |-> FALSE, error |-> error, detail |-> detail,
     predictions |-> <<>>]

\* jsonify({'success': True, ...}), status 200 by default
SuccessResponse(ps) ==
    [status |-> 200, success |-> TRUE, error |-> "", detail |-> "",
     predictions |-> ps]

\* isinstance(e, ValueError): json.JSONDecodeError and the JSONDecodeError of
\* requests are subclasses of ValueError
IsValueError(e) == e.type \in {"ValueError", "JSONDecodeError"}

\* the except clauses of predict
PredictExcept(e) ==
    IF IsValueError(e)
    THEN ErrorResponse(400, "Invalid input", e.text)
    ELSE ErrorResponse(500, "Failed to generate predictions", "")

\* the except clause of get_current_weather
CurrentExcept(e) == ErrorResponse(500, "Failed to fetch weather data", "")

\* what a step of a handler does: return a response, raise, or fall through
Return(r) == [kind |-> "return", response |-> r, exc |-> NoExc]
Raise(e) == [kind |-> "raise", response |-> NoResponse, exc |-> e]
Pass == [kind |-> "pass", response |-> NoResponse, exc |-> NoExc]

----------------------------------------------------------------------------
(* Request validation of predict                                           *)

\* float(x) of a JSON value or query argument
Float(x) ==
    CASE x.t \in {"number", "string", "bool"} ->
            [exc |-> NoExc, nan |-> FALSE, v |-> x.v]
      [] x.t = "string_nan" -> [exc |-> NoExc, nan |-> TRUE, v |-> 0]
      [] x.t = "string_bad" ->
            [exc |-> [type |-> "ValueError",
                      text |-> "could not convert string to float: 'abc'"],
             nan |-> FALSE, v |-> 0]
      [] OTHER ->
            [exc |-> [type |-> "TypeError",
                      text |-> "float() argument must be a string or a real number"],
             nan |-> FALSE, v |-> 0]

\* lo <= f <= hi on floats: every comparison with nan is false
Between(f, lo, hi) == ~f.nan /\ lo <= f.v /\ f.v <= hi

\* -90 <= latitude <= 90
ValidLatitude(f) == Between(f, -90, 90)

\* -180 <= longitude <= 180
ValidLongitude(f) == Between(f, -180, 180)

\* lines 58-72: get_json, the presence check, the conversions, the ranges
Validate(body) ==
    CASE body.kind = "raises" ->
            Raise([type |-> "BadRequest", text |-> "400 Bad Request"])
      [] body.kind = "none" ->
            Return(ErrorResponse(400, "Missing required fields: latitude, longitude", ""))
      [] body.kind = "scalar" ->
            Raise([type |-> "TypeError",
                   text |-> "argument of type 'int' is not iterable"])
      [] OTHER ->
            IF body.latitude.t = "absent" \/ body.longitude.t = "absent"
            THEN Return(ErrorResponse(400, "Missing required fields: latitude, longitude", ""))
            ELSE LET latitude == Float(body.latitude)
                     longitude == Float(body.longitude)
                 IN  IF latitude.exc # NoExc THEN Raise(latitude.exc)
                     ELSE IF longitude.exc # NoExc THEN Raise(longitude.exc)
                     ELSE IF ~ValidLatitude(latitude)
                     THEN Return(ErrorResponse(400,
                              "Invalid latitude. Must be between -90 and 90", ""))
                     ELSE IF ~ValidLongitude(longitude)
                     THEN Return(ErrorResponse(400,
                              "Invalid longitude. Must be between -180 and 180", ""))
                     ELSE Pass

\* mutant: only None counts as missing, an empty key passes the check
KeyMissingNoneOnly(key) == key = "unset"

\* `if not api_key`: None (variable unset) or the empty string
KeyMissing(key) == key \in {"unset", "empty"}

\* lines 81-82 and 185-186
KeyCheck(key) ==
    IF KeyMissing(key)
    THEN Return(ErrorResponse(500, "OpenWeatherMap API key not configured", ""))
    ELSE Pass

----------------------------------------------------------------------------
(* The upstream response                                                   *)

NoUpstream ==
    [outcome |-> "none", status |-> 0,
     body |-> [kind |-> "none", message |-> "absent", has_list |-> FALSE,
               list |-> <<>>, complete |-> FALSE]]

\* response.json(): the decoded body, or the exception it raises
JsonError(body) ==
    IF body.kind = "not_json"
    THEN [type |-> "JSONDecodeError",
          text |-> "Expecting value: line 1 column 1 (char 0)"]
    ELSE NoExc

\* x.get(...) on the decoded body: a JSON array has no get
GetError(body) ==
    IF body.kind = "array"
    THEN [type |-> "AttributeError", text |-> "'list' object has no attribute 'get'"]
    ELSE NoExc

\* response.json().get("message", fallback), formatted into the f-string: a
\* null message formats as None
ErrorMsg(body, fallback) ==
    CASE body.message = "absent" -> fallback
      [] body.message = "null" -> "None"
      [] OTHER -> body.message

\* lines 95-97 and 199-201
CheckStatus(up, fallback) ==
    IF up.status # 200
    THEN IF JsonError(up.body) # NoExc THEN Raise(JsonError(up.body))
         ELSE IF GetError(up.body) # NoExc THEN Raise(GetError(up.body))
         ELSE Return(ErrorResponse(500, "Weather API error",
                                   ErrorMsg(up.body, fallback)))
    ELSE Pass

\* lines 99-101: forecast_data = response.json(); .get("city"); .get("list")
Decode(up) ==
    IF JsonError(up.body) # NoExc THEN Raise(JsonError(up.body))
    ELSE IF GetError(up.body) # NoExc THEN Raise(GetError(up.body))
    ELSE Pass

\* forecast_data.get("list", [])
ForecastList(body) == IF body.has_list THEN body.list ELSE <<>>

\* lines 203-219: weather_data['main']['temp'], ...
CurrentFormat(up) ==
    IF JsonError(up.body) # NoExc THEN Raise(JsonError(up.body))
    ELSE IF GetError(up.body) # NoExc THEN Raise(GetError(up.body))
    ELSE IF ~up.body.complete
         THEN Raise([type |-> "KeyError", text |-> "'main'"])
         ELSE Return(SuccessResponse(<<>>))

----------------------------------------------------------------------------
(* Inputs: request bodies, query arguments, configuration, upstream        *)

\* length of the sample lists an upstream response carries in Spec
MaxUpstreamLen == 2

TzOffsets == {0, 19800}

\* os.environ.get('OPENWEATHER_API_KEY'): unset (None), empty, or a key
ApiKeys == {"unset", "empty", "set"}

JValue(t, v) == [t |-> t, v |-> v]

LatitudeNumbers == {-91, -90, 0, 90, 91}
LongitudeNumbers == {-181, -180, 0, 180, 181}

\* the values a field of the JSON body can hold
FieldValues(numbers) ==
    {JValue(t, 0) : t \in {"absent", "null", "list", "object", "string_bad",
                           "string_nan"}}
        \cup {JValue("number", v) : v \in numbers}
        \cup {JValue("string", v) : v \in {0, 200}}
        \cup {JValue("bool", 1)}

\* what request.get_json() gives: an exception (undecodable or empty body
\* sent as JSON), None, a JSON scalar, or a JSON object
Bodies ==
    {[kind |-> k, latitude |-> JValue("absent", 0), longitude |-> JValue("absent", 0)] :
        k \in {"raises", "none", "scalar"}}
        \cup {[kind |-> "object", latitude |-> la, longitude |-> lo] :
                la \in FieldValues(LatitudeNumbers),
                lo \in FieldValues(LongitudeNumbers)}

\* request.args.get(name): None when the argument is absent, else its text
ArgValues ==
    {JValue(t, 0) : t \in {"null", "string_bad", "string_nan"}}
        \cup {JValue("string", v) : v \in {0, 200}}

CurrentArgs ==
    {[kind |-> "args", latitude |-> la, longitude |-> lo] :
        la \in ArgValues, lo \in ArgValues}

Requests(h) == IF h = "predict" THEN Bodies ELSE CurrentArgs

\* a 'rain' or 'snow' entry of a sample: absent, a block without '3h' (it
\* holds '1h' only), a block with a '3h' value in tenths of a millimetre,
\* or null
Block(kind, v) == [kind |-> kind, v |-> v]

\* a sample with its precipitation entries
SampleWith(dt, shape, rain, snow) ==
    [dt |-> dt, shape |-> shape, rain |-> rain, snow |-> snow]

\* a sample of a dry interval: neither 'rain' nor 'snow'
Sample(dt, shape) == SampleWith(dt, shape, Block("absent", 0), Block("absent", 0))

\* several samples per date: 09:00, 12:00, 12:30, 15:00 local time
DeepSamples(offset) ==
    {Sample(Stamp(day, hm[1], hm[2], offset), "ok") :
        day \in {0, 1},
        hm \in {<<9, 0>>, <<12, 0>>, <<12, 30>>, <<15, 0>>}}

\* one sample per date, over more dates than the horizon keeps
WideSamples(offset) ==
    {Sample(Stamp(day, 9 + 3 * (day % 3), 0, offset), "ok") :
        day \in 0..(MaxWideDays - 1)}

ForecastLists(offset) ==
    SeqsUpTo(DeepSamples(offset), MaxDeepLen)
        \cup InjectiveSeqs(WideSamples(offset))

\* length of the sample lists whose precipitation entries vary
MaxPrecipLen == 2

RainBlocks ==
    {Block("absent", 0), Block("no_3h", 0), Block("null", 0),
     Block("value", 10), Block("value", 25)}

SnowBlocks ==
    {Block("absent", 0), Block("no_3h", 0), Block("null", 0), Block("value", 5)}

\* samples of two dates, 09:00 and noon, with every pairing of the entries
PrecipSamples(offset) ==
    {SampleWith(Stamp(hm[1], hm[2], 0, offset), "ok", rain, snow) :
        hm \in {<<0, 9>>, <<0, 12>>, <<1, 9>>},
        rain \in RainBlocks, snow \in SnowBlocks}

PrecipLists(offset) == SeqsUpTo(PrecipSamples(offset), MaxPrecipLen)

\* the samples of the upstream lists of Spec: well-formed ones and samples
\* without 'dt', with a 'dt' no datetime can hold, or without 'main'
UpstreamSamples(offset) ==
    {Sample(Stamp(0, 9, 0, offset), "ok"), Sample(Stamp(0, 12, 0, offset), "ok"),
     Sample(Stamp(1, 9, 0, offset), "no_main"), Sample(0, "no_dt"),
     Sample(0, "dt_out_of_range")}

Body(kind, message, has_list, list, complete) ==
    [kind |-> kind, message |-> message, has_list |-> has_list, list |-> list,
     complete |-> complete]

\* the bodies of an upstream response: not JSON at all, a JSON array, an
\* object with or without a message (complete: it holds the blocks a
\* current-weather payload has), a forecast payload with a sample list
UpstreamBodies(offset) ==
    {Body(k, "absent", FALSE, <<>>, FALSE) : k \in {"not_json", "array"}}
        \cup {Body("object", m, FALSE, <<>>, c) :
                m \in {"absent", "null", "Invalid API key"}, c \in BOOLEAN}
        \cup {Body("object", "absent", TRUE, l, TRUE) :
                l \in SeqsUpTo(UpstreamSamples(offset), MaxUpstreamLen)}

\* what requests.get(..., timeout=10) gives: a response, or an exception
UpstreamOutcomes(offset) ==
    {[outcome |-> o, status |-> 0, body |-> NoUpstream.body] :
        o \in {"timeout", "connection_error"}}
        \cup {[outcome |-> "response", status |-> st, body |-> b] :
                st \in {200, 401, 502}, b \in UpstreamBodies(offset)}

----------------------------------------------------------------------------
(* The handlers as a state machine                                         *)

\* the handler returns r
Respond(r) ==
    /\ response' = r
    /\ responses' = responses + 1
    /\ pc' = "done"

\* the except clauses of the running handler
Except(e) == IF handler = "predict" THEN PredictExcept(e) ELSE CurrentExcept(e)

\* a step with outcome o: return, raise into the except clauses, or go on
Step(o, next) ==
    CASE o.kind = "return" -> Respond(o.response)
      [] o.kind = "raise" -> Respond(Except(o.exc))
      [] OTHER -> pc' = next /\ UNCHANGED <<response, responses>>

\* no request is being handled
NoRequest ==
    [kind |-> "no_request", latitude |-> JValue("absent", 0),
     longitude |-> JValue("absent", 0)]

\* the server is up and waits for its first request
Init ==
    /\ handler = "none"
    /\ pc = "idle"
    /\ request = NoRequest
    /\ api_key \in ApiKeys
    /\ tz \in TzOffsets
    /\ upstream = NoUpstream
    /\ upstreamCalls = 0
    /\ forecasts = <<>>
    /\ daily_forecasts = <<>>
    /\ sorted_forecasts = <<>>
    /\ predictions = <<>>
    /\ response = NoResponse
    /\ responses = 0
    /\ stored = {}

\* predict, lines 58-72
PredictValidate ==
    /\ handler = "predict" /\ pc = "start"
    /\ Step(Validate(request), "key")
    /\ UNCHANGED <<handler, request, api_key, tz, upstream, upstreamCalls,
                   forecasts, daily_forecasts, sorted_forecasts, predictions,
                   stored>>

\* get_current_weather, lines 179-180
CurrentParse(args) ==
    IF Float(args.latitude).exc # NoExc THEN Raise(Float(args.latitude).exc)
    ELSE IF Float(args.longitude).exc # NoExc THEN Raise(Float(args.longitude).exc)
    ELSE Pass

CurrentValidate ==
    /\ handler = "current" /\ pc = "start"
    /\ Step(CurrentParse(request), "key")
    /\ UNCHANGED <<handler, request, api_key, tz, upstream, upstreamCalls,
                   forecasts, daily_forecasts, sorted_forecasts, predictions,
                   stored>>

\* predict lines 78-82, get_current_weather lines 182-186
CheckKey ==
    /\ pc = "key"
    /\ Step(KeyCheck(api_key), "get")
    /\ UNCHANGED <<handler, request, api_key, tz, upstream, upstreamCalls,
                   forecasts, daily_forecasts, sorted_forecasts, predictions,
                   stored>>

\* requests.get(url, params=params, timeout=10), lines 93 and 197: the call
\* returns a response or raises Timeout / ConnectionError
UpstreamGet ==
    /\ pc = "get"
    /\ upstreamCalls' = upstreamCalls + 1
    /\ \E o \in UpstreamOutcomes(tz) :
          /\ upstream' = o
          /\ IF o.outcome = "response"
             THEN Step(Pass, "status")
             ELSE Step(Raise([type |-> o.outcome, text |-> "HTTPSConnectionPool"]),
                       "status")
    /\ UNCHANGED <<handler, request, api_key, tz, forecasts, daily_forecasts,
                   sorted_forecasts, predictions, stored>>

\* mutant: after a non-200 response the GET is issued once more
AfterStatusRetry(o) ==
    IF o.kind = "pass" THEN "decode"
    ELSE IF upstreamCalls < 2 THEN "get" ELSE "done"

\* where the handler goes after the status check: on to the decoding, or
\* out with the error response (lines 97, 201 and the except clauses)
AfterStatus(o) == IF o.kind = "pass" THEN "decode" ELSE "done"

\* the generic fallback of the handler for an upstream error without message
Fallback ==
    IF handler = "predict" THEN "Could not retrieve forecast data"
    ELSE "Could not retrieve weather data"

\* lines 95-97 and 199-201
UpstreamStatus ==
    /\ pc = "status"
    /\ LET o == CheckStatus(upstream, Fallback) IN
          IF AfterStatus(o) = "get"
          THEN pc' = "get" /\ UNCHANGED <<response, responses>>
          ELSE Step(o, "decode")
    /\ UNCHANGED <<handler, request, api_key, tz, upstream, upstreamCalls,
                   forecasts, daily_forecasts, sorted_forecasts, predictions,
                   stored>>

\* predict, lines 99-101
PredictDecode ==
    /\ handler = "predict" /\ pc = "decode"
    /\ Step(Decode(upstream), "group")
    /\ forecasts' = IF Decode(upstream).kind = "pass"
                    THEN ForecastList(upstream.body) ELSE forecasts
    /\ UNCHANGED <<handler, request, api_key, tz, upstream, upstreamCalls,
                   daily_forecasts, sorted_forecasts, predictions, stored>>

\* get_current_weather, lines 203-219
CurrentRespond ==
    /\ handler = "current" /\ pc = "decode"
    /\ Step(CurrentFormat(upstream), "done")
    /\ UNCHANGED <<handler, request, api_key, tz, upstream, upstreamCalls,
                   forecasts, daily_forecasts, sorted_forecasts, predictions,
                   stored>>

\* predict, lines 104-162: the grouping loop, the sort and truncation, the
\* formatting loop and the success response
Aggregate ==
    /\ handler = "predict" /\ pc = "group"
    /\ IF GroupError(forecasts, 1) # NoExc
       THEN /\ Step(Raise(GroupError(forecasts, 1)), "done")
            /\ UNCHANGED <<daily_forecasts, sorted_forecasts, predictions>>
       ELSE /\ daily_forecasts' = GroupByDay(forecasts, Len(forecasts), tz)
            /\ sorted_forecasts' = SortedForecasts(daily_forecasts')
            /\ IF FormatError(sorted_forecasts', 1) # NoExc
               THEN /\ Step(Raise(FormatError(sorted_forecasts', 1)), "done")
                    /\ UNCHANGED predictions
               ELSE /\ predictions' = Predictions(sorted_forecasts')
                    /\ Respond(SuccessResponse(predictions'))
    /\ UNCHANGED <<handler, request, api_key, tz, upstream, upstreamCalls,
                   forecasts, stored>>

\* an inbound request is dispatched to its handler
NewRequest ==
    /\ pc = "idle"
    /\ \E h \in {"predict", "current"} : \E r \in Requests(h) :
          /\ handler' = h
          /\ request' = r
    /\ pc' = "start"
    /\ UNCHANGED <<api_key, tz, upstream, upstreamCalls, forecasts,
                   daily_forecasts, sorted_forecasts, predictions, response,
                   responses, stored>>

\* the response has been sent: the request context and the handler's locals
\* are gone, the worker waits for the next request
RequestDone ==
    /\ pc = "done"
    /\ handler' = "none"
    /\ request' = NoRequest
    /\ pc' = "idle"
    /\ upstream' = NoUpstream
    /\ upstreamCalls' = 0
    /\ forecasts' = <<>>
    /\ daily_forecasts' = <<>>
    /\ sorted_forecasts' = <<>>
    /\ predictions' = <<>>
    /\ response' = NoResponse
    /\ responses' = 0
    /\ UNCHANGED <<api_key, tz, stored>>

HandlerStep ==
    \/ PredictValidate
    \/ CurrentValidate
    \/ CheckKey
    \/ UpstreamGet
    \/ UpstreamStatus
    \/ PredictDecode
    \/ CurrentRespond
    \/ Aggregate

Next == HandlerStep \/ NewRequest \/ RequestDone

Spec == Init /\ [][Next]_vars

\* every started handler runs to its return: the worker executes it and
\* requests.get is bounded by its timeout
FairSpec == Spec /\ WF_vars(HandlerStep)

----------------------------------------------------------------------------
(* GET /api/predictions/history                                            *)
(* Coordinates are in tenths of a degree.                                  *)

\* number of rows of the predictions table
MaxRecords == 2

\* request.args.get('limit', 100, type=int)
DefaultLimit == 100

\* request.args.get(name, type=float): None when the argument is absent or
\* does not convert
ArgFloat(x) == IF x.t = "string" THEN JValue("number", x.v) ELSE JValue("null", 0)

\* request.args.get('limit', 100, type=int)
ArgLimit(x) == IF x.t = "string" THEN x.v ELSE DefaultLimit

\* the truth value of an optional float: None and 0.0 are false
Truthy(x) == x.t = "number" /\ x.v # 0

\* Prediction.latitude.between(latitude - 0.5, latitude + 0.5) and the same
\* for the longitude
InBox(row, latitude, longitude) ==
    /\ latitude.v - 5 <= row.latitude /\ row.latitude <= latitude.v + 5
    /\ longitude.v - 5 <= row.longitude /\ row.longitude <= longitude.v + 5

\* lines 273-279: the query, filtered `if latitude and longitude`
Filtered(rows, latitude, longitude) ==
    IF Truthy(latitude) /\ Truthy(longitude)
    THEN {row \in rows : InBox(row, latitude, longitude)}
    ELSE rows

\* s lists the rows by created_at, latest first
Descending(s) ==
    \A i, j \in 1..Len(s) : i < j => s[i].created_at >= s[j].created_at

\* the orders order_by(Prediction.created_at.desc()) can give the rows in:
\* the order of rows created at the same time is the database's choice
Ordered(rows) ==
    {s \in InjectiveSeqs(rows) : Len(s) = Cardinality(rows) /\ Descending(s)}

\* .limit(limit).all()
Limit(s, limit) == SubSeq(s, 1, Min(limit, Len(s)))

HistoryRows ==
    [id : 1..MaxRecords, created_at : 1..MaxRecords,
     latitude : {0, 10}, longitude : {0, 10}]

\* the tables: every row has its own id
Tables ==
    {t \in SUBSET HistoryRows : \A r1, r2 \in t : r1.id = r2.id => r1 = r2}

HistoryArgs ==
    [kind : {"args"},
     latitude : {JValue("null", 0), JValue("string_bad", 0), JValue("string", 0),
                 JValue("string", 4), JValue("string", 10)},
     longitude : {JValue("null", 0), JValue("string", 0), JValue("string", 4)},
     limit : {JValue("null", 0), JValue("string", 0), JValue("string", 1)}]

InitHistory ==
    /\ handler = "history"
    /\ pc = "start"
    /\ request \in HistoryArgs
    /\ stored \in Tables
    /\ api_key = "set"
    /\ tz = 0
    /\ upstream = NoUpstream
    /\ upstreamCalls = 0
    /\ forecasts = <<>>
    /\ daily_forecasts = <<>>
    /\ sorted_forecasts = <<>>
    /\ predictions = <<>>
    /\ response = NoResponse
    /\ responses = 0

\* get_prediction_history, lines 268-287
GetPredictionHistory ==
    /\ handler = "history" /\ pc = "start"
    /\ LET latitude == ArgFloat(request.latitude)
           longitude == ArgFloat(request.longitude)
           limit == ArgLimit(request.limit)
       IN  \E s \in Ordered(Filtered(stored, latitude, longitude)) :
              Respond(SuccessResponse(Limit(s, limit)))
    /\ UNCHANGED <<handler, request, api_key, tz, upstream, upstreamCalls,
                   forecasts, daily_forecasts, sorted_forecasts, predictions,
                   stored>>

NextHistory == GetPredictionHistory

SpecHistory == InitHistory /\ [][NextHistory]_vars

----------------------------------------------------------------------------
(* The aggregation alone, from a decoded sample list                       *)

InitAgg ==
    /\ handler = "predict"
    /\ pc = "group"
    /\ request = [kind |-> "object", latitude |-> JValue("number", 0),
                  longitude |-> JValue("number", 0)]
    /\ api_key = "set"
    /\ tz \in TzOffsets
    /\ forecasts \in ForecastLists(tz)
    /\ upstream = [outcome |-> "response", status |-> 200,
                   body |-> Body("object", "absent", TRUE, forecasts, TRUE)]
    /\ upstreamCalls = 1
    /\ daily_forecasts = <<>>
    /\ sorted_forecasts = <<>>
    /\ predictions = <<>>
    /\ response = NoResponse
    /\ responses = 0
    /\ stored = {}

NextAgg == Aggregate

SpecAgg == InitAgg /\ [][NextAgg]_vars

\* the aggregation of sample lists whose 'rain' and 'snow' entries vary
InitPrecip ==
    /\ handler = "predict"
    /\ pc = "group"
    /\ request = [kind |-> "object", latitude |-> JValue("number", 0),
                  longitude |-> JValue("number", 0)]
    /\ api_key = "set"
    /\ tz \in TzOffsets
    /\ forecasts \in PrecipLists(tz)
    /\ upstream = [outcome |-> "response", status |-> 200,
                   body |-> Body("object", "absent", TRUE, forecasts, TRUE)]
    /\ upstreamCalls = 1
    /\ daily_forecasts = <<>>
    /\ sorted_forecasts = <<>>
    /\ predictions = <<>>
    /\ response = NoResponse
    /\ responses = 0
    /\ stored = {}

SpecPrecip == InitPrecip /\ [][NextAgg]_vars

----------------------------------------------------------------------------
(* Vocabulary of the properties of the aggregation                         *)

Positions == 1..Len(forecasts)

\* local time, calendar date and hour of the i-th sample of the list
LocalOf(i) == FromTimestamp(forecasts[i].dt, tz)
DateOf(i) == DateKey(LocalOf(i))
HourOf(i) == Hour(LocalOf(i))

Dates == {DateOf(i) : i \in Positions}
OfDate(d) == {i \in Positions : DateOf(i) = d}
NoonOf(d) == {i \in OfDate(d) : HourOf(i) = 12}

MaxOf(S) == CHOOSE x \in S : \A y \in S : y <= x
MinOf(S) == CHOOSE x \in S : \A y \in S : x <= y

\* the list is in chronological order
Chronological ==
    \A i, j \in Positions : i < j => forecasts[i].dt <= forecasts[j].dt

\* the entry daily_forecasts holds for date d
RetainedOf(d) == daily_forecasts[IndexOfKey(daily_forecasts, d, 1)].value

\* the summary at position k of the result built from the i-th sample
SummaryOf(i, k) ==
    FormatPrediction(k - 1, [dt |-> forecasts[i].dt, timestamp |-> LocalOf(i),
                             forecast |-> forecasts[i]])

\* the aggregation ran to its success response
Aggregated == handler = "predict" /\ pc = "done" /\ response.success

\* date d is summarised from the i-th sample: it is the retained entry, and
\* the summary of the response for d, if any, is built from it
SummarisedFrom(d, i) ==
    /\ IndexOfKey(daily_forecasts, d, 1) # 0
    /\ RetainedOf(d).forecast = forecasts[i]
    /\ RetainedOf(d).dt = forecasts[i].dt
    /\ \A k \in 1..Len(response.predictions) :
          response.predictions[k].date = d =>
              response.predictions[k] = SummaryOf(i, k)

\* the set of the n smallest elements of S
Smallest(S, n) == {x \in S : Cardinality({y \in S : y < x}) < n}

----------------------------------------------------------------------------
(* C1: a date that has a sample at local hour 12 is summarised from an     *)
(* hour-12 sample of that date, the last one in processing order; no       *)
(* non-noon sample of the date is retained, wherever it stands in the list *)
C1_NoonSampleWins ==
    Aggregated =>
        \A d \in Dates : NoonOf(d) # {} =>
            /\ SummarisedFrom(d, MaxOf(NoonOf(d)))
            /\ Hour(RetainedOf(d).timestamp) = 12
            /\ DateKey(RetainedOf(d).timestamp) = d

\* a date with two different noon samples, the earlier one last in the list
\* but for a non-noon sample behind it, another non-noon sample in front,
\* and the date among the summaries of the response
C1_Witness ==
    /\ Aggregated
    /\ \E d \in Dates :
          /\ \E i, j \in NoonOf(d) :
                i < j /\ forecasts[j].dt < forecasts[i].dt /\ j = MaxOf(NoonOf(d))
          /\ \E i \in OfDate(d) \ NoonOf(d) : i > MaxOf(NoonOf(d))
          /\ \E i \in OfDate(d) \ NoonOf(d) : i < MinOf(NoonOf(d))
          /\ \E k \in 1..Len(response.predictions) :
                response.predictions[k] = SummaryOf(MaxOf(NoonOf(d)), k)

----------------------------------------------------------------------------
----------------------------------------------------------------------------
(* C3: a list with k distinct calendar dates gives exactly min(k, 5)       *)
(* summaries in a success response, one per date, for the min(k, 5)        *)
(* earliest dates, in ascending date order, with day_offset 0, 1, ..., n-1;*)
(* the empty list gives the empty sequence                                 *)
C3_EarliestDatesInOrder ==
    (handler = "predict" /\ pc = "done" /\ GroupError(forecasts, 1) = NoExc) =>
        LET ps == response.predictions
            n == Min(Cardinality(Dates), MaxSummaries)
        IN  /\ response.success /\ response.status = 200
            /\ Len(ps) = n
            /\ {ps[k].date : k \in 1..Len(ps)} = Smallest(Dates, n)
            /\ \A k \in 1..Len(ps) : ps[k].day_offset = k - 1
            /\ \A k, m \in 1..Len(ps) : k < m => ps[k].date < ps[m].date

\* more dates than the horizon, listed out of date order
C3_Witness ==
    /\ Aggregated
    /\ Cardinality(Dates) > MaxSummaries
    /\ Len(response.predictions) = MaxSummaries
    /\ \E i, j \in Positions : i < j /\ DateOf(j) < DateOf(i)

----------------------------------------------------------------------------
(* Vocabulary of the properties of the handlers                            *)

\* a predict request has been validated / has been answered
PredictPastValidation == handler = "predict" /\ pc # "start"
PredictDone == handler = "predict" /\ pc = "done"

\* the body carries both fields
HasBothFields ==
    /\ request.kind = "object"
    /\ request.latitude.t # "absent"
    /\ request.longitude.t # "absent"

\* the body is absent or empty (get_json gives None), or it is JSON that
\* holds no 'latitude' or no 'longitude'
LacksFields == request.kind \in {"none", "scalar", "object"} /\ ~HasBothFields

Converts(x) == Float(x).exc = NoExc

\* a field that converts to a number outside its range
LatitudeOutOfRange ==
    HasBothFields /\ Converts(request.latitude)
        /\ ~Between(Float(request.latitude), -90, 90)
LongitudeOutOfRange ==
    HasBothFields /\ Converts(request.longitude)
        /\ ~Between(Float(request.longitude), -180, 180)

\* both fields convert to numbers within their ranges
CoordinatesValid ==
    /\ HasBothFields
    /\ Converts(request.latitude) /\ Converts(request.longitude)
    /\ Between(Float(request.latitude), -90, 90)
    /\ Between(Float(request.longitude), -180, 180)

KeyNotConfigured ==
    ErrorResponse(500, "OpenWeatherMap API key not configured", "")

\* a validated request is at the API-key check or beyond it
ReachedKeyCheck ==
    \/ pc \in {"key", "get", "status", "decode", "group"}
    \/ pc = "done" /\ (response = KeyNotConfigured \/ upstreamCalls = 1)

\* the upstream call of this request failed: it raised, answered with a
\* status other than 200, or answered with a body that is not JSON
UpstreamFailed ==
    \/ upstream.outcome \in {"timeout", "connection_error"}
    \/ upstream.outcome = "response"
          /\ (upstream.status # 200 \/ JsonError(upstream.body) # NoExc)

\* the exception raised after validation while handling this request, NoExc
\* if there is none: by the upstream call, by the decoding of the upstream
\* body, by the timestamp conversion or by the formatting
PostValidationException ==
    CASE upstream.outcome \in {"timeout", "connection_error"} ->
            [type |-> upstream.outcome, text |-> "HTTPSConnectionPool"]
      [] upstream.outcome = "response" /\ upstream.status # 200 ->
            CheckStatus(upstream, "Could not retrieve forecast data").exc
      [] upstream.outcome = "response" /\ upstream.status = 200 ->
            IF Decode(upstream).kind = "raise" THEN Decode(upstream).exc
            ELSE LET l == ForecastList(upstream.body) IN
                 IF GroupError(l, 1) # NoExc THEN GroupError(l, 1)
                 ELSE FormatError(SortedForecasts(GroupByDay(l, Len(l), tz)), 1)
      [] OTHER -> NoExc

----------------------------------------------------------------------------
(* C4: predict answers 400 with an error message when the body is          *)
(* absent/empty or lacks a field, or when the converted latitude or        *)
(* longitude is out of range; coordinates within the ranges, bounds        *)
(* included, pass validation and reach the API-key check                   *)
C4_ValidationOutcome ==
    PredictPastValidation =>
        /\ (LacksFields \/ LatitudeOutOfRange \/ LongitudeOutOfRange) =>
              (pc = "done" /\ response.status = 400 /\ response.error # "")
        /\ CoordinatesValid => ReachedKeyCheck

----------------------------------------------------------------------------
(* C5: with both fields present, a failing conversion of either field to a *)
(* float is answered 400, never 500, whatever the value is                 *)
C5_ConversionFailureIs400 ==
    (PredictDone /\ HasBothFields
        /\ (~Converts(request.latitude) \/ ~Converts(request.longitude))) =>
            response.status = 400

----------------------------------------------------------------------------
(* C6: a non-200 upstream response is answered 500, with the provider's    *)
(* message if the upstream body has one and the generic fallback if not;   *)
(* never 400, never success                                                *)
C6_UpstreamErrorIs500 ==
    (PredictDone /\ upstream.outcome = "response" /\ upstream.status # 200) =>
        /\ response.status = 500 /\ ~response.success
        /\ response.error = "Weather API error"
        /\ response.detail =
              IF upstream.body.kind = "object"
                    /\ upstream.body.message \notin {"absent", "null"}
              THEN upstream.body.message
              ELSE "Could not retrieve forecast data"

----------------------------------------------------------------------------
(* C7: an exception raised after validation (upstream call, decoding,      *)
(* timestamp conversion, aggregation, formatting) is answered 500 with the *)
(* fixed message, and the response never carries the exception's text      *)
C7_GenericErrorIs500 ==
    (PredictDone /\ PostValidationException # NoExc) =>
        /\ response = ErrorResponse(500, "Failed to generate predictions", "")
        /\ response.detail # PostValidationException.text

----------------------------------------------------------------------------
(* C8: with the API key unset or empty and valid coordinates the answer is *)
(* 500, key not configured; with coordinates missing or out of range it is *)
(* 400 whether or not the key is configured                                *)
C8_KeyCheckAfterValidation ==
    PredictDone =>
        /\ (CoordinatesValid /\ api_key \in {"unset", "empty"}) =>
              response = KeyNotConfigured
        /\ (LacksFields \/ LatitudeOutOfRange \/ LongitudeOutOfRange) =>
              response.status = 400

----------------------------------------------------------------------------
(* C9: a request to predict or weather/current issues at most one upstream *)
(* GET; after an upstream failure it ends with an error response and no    *)
(* second call; every request eventually returns exactly one response      *)
C9_AtMostOneUpstreamCall ==
    /\ [](upstreamCalls <= 1 /\ responses <= 1)
    /\ [](pc = "done" => responses = 1)
    /\ []((pc = "done" /\ UpstreamFailed) =>
            (upstreamCalls = 1 /\ ~response.success /\ response.status >= 400))
    /\ [][(UpstreamFailed /\ pc # "done") => upstreamCalls' = upstreamCalls]_vars
    /\ (pc \notin {"idle", "done"}) ~> (pc = "done")

\* a request of each handler answered after its one upstream call failed
C9_Witness ==
    /\ pc = "done"
    /\ handler = "current"
    /\ upstream.outcome = "response" /\ upstream.status = 401
    /\ upstreamCalls = 1
    /\ responses = 1
    /\ response.status = 500

----------------------------------------------------------------------------
(* C10: the history query called with a latitude and a longitude, zero     *)
(* included, returns only rows within 0.5 degrees of both, latest first,   *)
(* and at most limit of them (100 without a limit)                         *)
C10_HistoryWithinBox ==
    (handler = "history" /\ pc = "done"
        /\ ArgFloat(request.latitude).t = "number"
        /\ ArgFloat(request.longitude).t = "number") =>
        LET rows == response.predictions IN
        /\ response.success
        /\ \A k \in 1..Len(rows) :
              /\ rows[k] \in stored
              /\ InBox(rows[k], ArgFloat(request.latitude),
                       ArgFloat(request.longitude))
        /\ Descending(rows)
        /\ Len(rows) <= ArgLimit(request.limit)

----------------------------------------------------------------------------
(* C11: the precipitation of a summary is the 3-hour rain accumulation of  *)
(* its retained sample plus the 3-hour snow accumulation, each taken as 0  *)
(* when the block or its '3h' field is absent: rain 2.5 without snow gives *)
(* 2.5, rain 1.0 with snow 0.5 gives 1.5, neither gives 0                  *)

\* the '3h' value of an entry, 0 when the entry or its '3h' is absent
ThreeHour(block) ==
    CASE block.kind = "absent" -> 0
      [] block.kind = "no_3h" -> 0
      [] block.kind = "value" -> block.v

C11_PrecipitationIsRainPlusSnow ==
    Aggregated =>
        /\ Len(response.predictions) = Len(sorted_forecasts)
        /\ \A k \in 1..Len(response.predictions) :
              LET sample == sorted_forecasts[k].value.forecast
                  p == response.predictions[k].precipitation
              IN  /\ sample \in {forecasts[i] : i \in Positions}
                  /\ p = ThreeHour(sample.rain) + ThreeHour(sample.snow)
                  /\ (sample.rain = Block("value", 25) /\ sample.snow.kind = "absent")
                        => p = 25
                  /\ (sample.rain = Block("value", 10) /\ sample.snow = Block("value", 5))
                        => p = 15
                  /\ (sample.rain.kind = "absent" /\ sample.snow.kind = "absent")
                        => p = 0

\* a response with a summary of rain and snow together and a summary of a
\* sample whose rain block has no '3h'
C11_Witness ==
    /\ Aggregated
    /\ \E k, m \in 1..Len(response.predictions) :
          /\ sorted_forecasts[k].value.forecast.rain = Block("value", 10)
          /\ sorted_forecasts[k].value.forecast.snow = Block("value", 5)
          /\ response.predictions[k].precipitation = 15
          /\ sorted_forecasts[m].value.forecast.rain.kind = "no_3h"
          /\ sorted_forecasts[m].value.forecast.snow.kind = "absent"
          /\ response.predictions[m].precipitation = 0

----------------------------------------------------------------------------
(* C12: in POST /api/predict an upstream GET is issued only after the body *)
(* was found to hold both fields, both converted to numbers within range,  *)
(* and the API key was found present, in that order; a request answered    *)
(* with a validation 400 or with the key-not-configured 500 has issued no  *)
(* upstream call                                                           *)

\* the 400 answers of the validation step: the three returns of lines 61-72
\* and the ValueError of float() on a field
ValidationAnswers ==
    {ErrorResponse(400, "Missing required fields: latitude, longitude", ""),
     ErrorResponse(400, "Invalid latitude. Must be between -90 and 90", ""),
     ErrorResponse(400, "Invalid longitude. Must be between -180 and 180", ""),
     ErrorResponse(400, "Invalid input", "could not convert string to float: 'abc'")}

\* the upstream GET of a predict request is issued in this step
IssuesUpstreamGet ==
    handler = "predict" /\ pc # "done" /\ upstreamCalls' # upstreamCalls

C12_UpstreamCallAfterValidationAndKey ==
    /\ []((handler = "predict" /\ pc = "start") => upstreamCalls = 0)
    /\ []((handler = "predict" /\ pc = "key") =>
            (CoordinatesValid /\ upstreamCalls = 0))
    /\ []((handler = "predict" /\ (pc = "get" \/ upstreamCalls > 0)) =>
            (CoordinatesValid /\ api_key = "set"))
    /\ []((PredictDone /\ response \in ValidationAnswers \cup {KeyNotConfigured}) =>
            upstreamCalls = 0)
    /\ [][IssuesUpstreamGet =>
            /\ pc = "get" /\ upstreamCalls = 0 /\ upstreamCalls' = 1
            /\ CoordinatesValid /\ api_key = "set"]_vars

\* the GET of a validated request with a configured key has just been issued
C12_Witness ==
    /\ handler = "predict" /\ pc = "status"
    /\ upstreamCalls = 1
    /\ CoordinatesValid /\ api_key = "set"

====
